---- MODULE Spec2Model ----
(***************************************************************************)
(* fpl-sync.js: one run of the FPL -> Gist synchronisation script.         *)
(*                                                                         *)
(* Two specifications over the same definitions:                           *)
(*   Spec      a whole run of main() together with the top-level handler   *)
(*             main().catch;                                               *)
(*   SpecFetch one isolated call of fetchFPL(path), with the responses it  *)
(*             received and the time it slept recorded beside it.          *)
(*                                                                         *)
(* Conventions for JavaScript values:                                      *)
(*   an optional value (undefined / null or a value) is a sequence of      *)
(*   length 0 or 1; an absent environment variable is the empty string;    *)
(*   an object used as a map is a function whose DOMAIN is its key set.    *)
(***************************************************************************)
EXTENDS Integers, Sequences, FiniteSets, TLC

\* ------------------------------------------------------------- bounds
\* Largest number of league members a standings response carries.
MaxMembers == 5
\* Largest number of upstream responses other than a clean 200 that the
\* FPL server gives during one run.
MaxFaults == 5
\* The largest number of periods in the static data of the period-selection
\* specification.
MaxEvents == 3

\* ---------------------------------------------------- program constants
\* fetchFPL(path, retries = 3)
retries == 3
\* const batchSize = 4
batchSize == 4
\* setTimeout(r, (i+1) * 3000) after a 429
BackoffMs == 3000
\* setTimeout(r, 2000) in the catch block
CatchDelayMs == 2000
\* setTimeout(r, 500) between two batches
PauseMs == 500

VARIABLES
  LEAGUE_ID,   \* process.env.FPL_LEAGUE_ID ("" when absent)
  GIST_ID,     \* process.env.GIST_ID
  TOKEN,       \* process.env.GIST_TOKEN
  pc,          \* where main() is suspended
  exitCode,    \* <<>> while the process runs, <<0>> or <<1>> once it ended
  error,       \* err.message handed to main().catch, "" if none
  errorInfo,   \* the status and the body text quoted in err.message
  gistRes,     \* optional: the answer to the PATCH request
  top,         \* the two fetchFPL calls under Promise.all (league, bootstrap)
  members,     \* league.standings.results, as the sequence of m.entry
  curEvent,    \* optional: the event chosen as current
  nextEvent,   \* optional: the event chosen as next
  elements,    \* bootstrap.elements
  i,           \* loop variable of the running batch loop
  calls,       \* entry -> fetchFPL call of the batch under Promise.allSettled
  histMap,     \* entry -> optional history payload
  picksMap,    \* entry -> pick set
  warned,      \* entries named by console.warn, in order
  output,      \* optional: the snapshot object built at line 131
  gistSent,    \* number of PATCH requests sent to api.github.com
  stored,      \* optional: content of the gist file on the server
  hSched,      \* history loop: the batches started and pauses taken, in order
  pSched,      \* picks loop: the same
  hResults,    \* history loop: entry -> how its call stood when results were collected
  pResults,    \* picks loop: the same
  faults,      \* number of faulty upstream responses given so far
  outOfOrder,  \* some call settled while an earlier item of its batch had not
  log,         \* SpecFetch: responses received by the call, in order
  slept,       \* SpecFetch: milliseconds the call has spent in setTimeout
  nfetch       \* SpecFetch: number of fetch() requests the call has issued

runVars == <<pc, exitCode, error, errorInfo, gistRes, top, members, curEvent, nextEvent, elements,
             i, calls, histMap, picksMap, warned, output, gistSent, stored,
             hSched, pSched, hResults, pResults, faults, outOfOrder>>
envVars == <<LEAGUE_ID, GIST_ID, TOKEN>>
unitVars == <<log, slept, nfetch>>
vars == <<envVars, runVars, unitVars>>

\* ------------------------------------------------------------ helpers
Min(a, b) == IF a < b THEN a ELSE b
Range(s) == {s[k] : k \in 1..Len(s)}
EmptyMap == [x \in {} |-> <<>>]
\* Variant: slice(from), every item from the index to the end.
SliceToEnd(s, from, to) == SubSeq(s, from + 1, Len(s))
\* Array.prototype.slice(from, to) with 0-based, end-exclusive indices
Slice(s, from, to) == SubSeq(s, from + 1, Min(to, Len(s)))

\* ------------------------------------------------------- HTTP responses
\* What one fetch(url) attempt meets. status 0: fetch() itself rejected
\* (connection error, timeout). bodyOk: res.json() delivers the parsed body.
Response(status, bodyOk) == [status |-> status, bodyOk |-> bodyOk]
OK200 == Response(200, TRUE)
NetFail == Response(0, FALSE)
\* res.ok: status in the range 200-299
ResOk(r) == r.status >= 200 /\ r.status <= 299
\* Responses met during a whole run
RunResponses == {OK200, Response(429, TRUE), Response(500, TRUE), NetFail}
\* Responses met by the isolated call
UnitResponses == RunResponses \cup {Response(404, TRUE), Response(200, FALSE)}

\* --------------------------------------------------------------- paths
\* `/leagues-classic/${LEAGUE_ID}/standings/`, '/bootstrap-static/',
\* `/entry/${m.entry}/history/`, `/entry/${m.entry}/event/${id}/picks/`
Path(endpoint, entry, gw) == [endpoint |-> endpoint, entry |-> entry, gw |-> gw]
LeaguePath == Path("standings", 0, 0)
BootstrapPath == Path("bootstrap", 0, 0)
HistoryPath(entry) == Path("history", entry, 0)
PicksPath(entry, gw) == Path("picks", entry, gw)

\* ------------------------------------------------------------ fetchFPL
\* A call of fetchFPL is a record:
\*   path    the argument
\*   i       the loop variable
\*   st      "fetch"     awaiting fetch()/res.json() of attempt i
\*           "sleep"     awaiting a setTimeout of `delay` ms
\*           "fulfilled" returned `val` (<<>> is undefined)
\*           "rejected"  threw `err`
\* new Error(`FPL ${res.status}: ${path}`), or the error fetch()/json() threw
\* Variant: the message leaves the status out.
HttpErrorNoStatus(status, path) == [kind |-> "FPL", status |-> 0, path |-> path]
HttpError(status, path) == [kind |-> "FPL", status |-> status, path |-> path]
TransportError(r, path) ==
  [kind |-> IF r.status = 0 THEN "fetch" ELSE "json", status |-> r.status, path |-> path]
NoError == [kind |-> "", status |-> 0, path |-> LeaguePath]

\* Entering fetchFPL: i = 0 and the first fetch() is issued.
FetchStart(path) ==
  [path |-> path, i |-> 0, st |-> "fetch", delay |-> 0, val |-> <<>>, err |-> NoError]

\* catch (e) { if (i === retries - 1) throw e; await sleep(2000) }
CatchBlock(c, e) ==
  IF c.i = retries - 1
  THEN [c EXCEPT !.st = "rejected", !.err = e]
  ELSE [c EXCEPT !.st = "sleep", !.delay = CatchDelayMs]

\* Variant: the backoff after a 429 does not grow with the attempt.
OnResponseFlatBackoff(c, r, body) ==
  IF r.status = 0 THEN CatchBlock(c, TransportError(r, c.path))
  ELSE IF r.status = 429 THEN [c EXCEPT !.st = "sleep", !.delay = BackoffMs]
  ELSE IF ~ResOk(r) THEN CatchBlock(c, HttpError(r.status, c.path))
  ELSE IF ~r.bodyOk THEN CatchBlock(c, TransportError(r, c.path))
  ELSE [c EXCEPT !.st = "fulfilled", !.val = <<body>>]

\* The body of the try block once attempt i has its answer r; body is what
\* res.json() yields when the answer is a readable 200.
OnResponse(c, r, body) ==
  IF r.status = 0 THEN CatchBlock(c, TransportError(r, c.path))
  ELSE IF r.status = 429 THEN [c EXCEPT !.st = "sleep", !.delay = (c.i + 1) * BackoffMs]
  ELSE IF ~ResOk(r) THEN CatchBlock(c, HttpError(r.status, c.path))
  ELSE IF ~r.bodyOk THEN CatchBlock(c, TransportError(r, c.path))
  ELSE [c EXCEPT !.st = "fulfilled", !.val = <<body>>]

\* Variant: the loop test reads i <= retries.
OnTimerOneMore(c) ==
  IF c.i + 1 <= retries
  THEN [c EXCEPT !.i = c.i + 1, !.st = "fetch", !.delay = 0]
  ELSE [c EXCEPT !.i = c.i + 1, !.st = "fulfilled", !.delay = 0, !.val = <<>>]

\* The timer fires: i++ and either the next attempt is issued or the loop
\* ends and the function returns without a value.
OnTimer(c) ==
  IF c.i + 1 < retries
  THEN [c EXCEPT !.i = c.i + 1, !.st = "fetch", !.delay = 0]
  ELSE [c EXCEPT !.i = c.i + 1, !.st = "fulfilled", !.delay = 0, !.val = <<>>]

IsSettled(c) == c.st \in {"fulfilled", "rejected"}
IsFault(r) == r # OK200


\* Variant: the semantics of Promise.all, which stops waiting at the first
\* rejection.
AllOrFirstRejection(cs) ==
  \/ \A e \in DOMAIN cs : IsSettled(cs[e])
  \/ \E e \in DOMAIN cs : cs[e].st = "rejected"
\* Promise.allSettled(batch.map(...)) resolves once every call is settled.
AllSettled(cs) == \A e \in DOMAIN cs : IsSettled(cs[e])

\* ------------------------------------------------------ upstream data
\* m.entry of the k-th row of the standings (rows are not in entry order)
Entry(k) == 20 - k
\* Bodies of the standings endpoint: league.standings.results
Leagues == {[results |-> [k \in 1..n |-> Entry(k)]] : n \in 0..MaxMembers}

Event(id, isCurrent, finished, isNext) ==
  [id |-> id, is_current |-> isCurrent, finished |-> finished, is_next |-> isNext]
Element(id, pts) == [id |-> id, event_points |-> pts]
\* Bodies of the bootstrap-static endpoint. An event of id 0 stands for an
\* event without an id (both are falsy in `curEvent?.id`).
Bootstraps ==
  { [events |-> <<Event(1, FALSE, TRUE, FALSE), Event(2, TRUE, FALSE, FALSE),
                  Event(3, FALSE, FALSE, TRUE)>>,
     elements |-> <<Element(1, 6)>>],
    [events |-> <<>>, elements |-> <<Element(1, 6)>>],
    [events |-> <<Event(0, TRUE, FALSE, FALSE)>>, elements |-> <<Element(1, 6)>>] }

\* Body of /entry/{entry}/history/
HistoryBody(entry) ==
  [current |-> <<[event |-> 1, points |-> entry, total_points |-> entry + 100]>>]
\* Body of /entry/{entry}/event/{gw}/picks/ ; element 9 is in no static table
PicksBody(entry, gw) ==
  [active_chip |-> <<>>,
   picks |-> << [element |-> 1, position |-> 1, multiplier |-> entry % 3],
                [element |-> 9, position |-> 2, multiplier |-> 1] >>]

\* ------------------------------------------------- period selection
\* events.find(pred): the first of the matching positions, undefined if none
Find(events, hits) ==
  IF hits = {} THEN <<>>
  ELSE <<events[CHOOSE k \in hits : \A j \in hits : k <= j]>>
\* Variant: findLast is replaced by find.
FindLastAsFind(events, hits) ==
  IF hits = {} THEN <<>>
  ELSE <<events[CHOOSE k \in hits : \A j \in hits : k <= j]>>
\* events.findLast(pred): the last of the matching positions, undefined if none
FindLast(events, hits) ==
  IF hits = {} THEN <<>>
  ELSE <<events[CHOOSE k \in hits : \A j \in hits : k >= j]>>
\* the positions matched by e => e.is_current, e => e.finished, e => e.is_next
IsCurrent(events) == {k \in 1..Len(events) : events[k].is_current}
IsFinished(events) == {k \in 1..Len(events) : events[k].finished}
IsNext(events) == {k \in 1..Len(events) : events[k].is_next}
\* a || b on optional values
OrElse(a, b) == IF a # <<>> THEN a ELSE b
\* events.find(e => e.is_current) || events.findLast(e => e.finished) || events[0]
CurEvent(events) ==
  OrElse(Find(events, IsCurrent(events)),
         OrElse(FindLast(events, IsFinished(events)),
                IF Len(events) > 0 THEN <<events[1]>> ELSE <<>>))
\* events.find(e => e.is_next)
NextEvent(events) == Find(events, IsNext(events))
\* curEvent?.id || null   (0 is falsy)
EventId(ev) == IF ev # <<>> /\ ev[1].id # 0 THEN <<ev[1].id>> ELSE <<>>

\* ----------------------------------------------------- picks mapping
\* elemMap[p.element] || {}
ElemOf(elems, id) ==
  LET hits == {k \in 1..Len(elems) : elems[k].id = id}
  IN  IF hits = {} THEN <<>>
      ELSE <<elems[CHOOSE k \in hits : \A j \in hits : k >= j]>>
\* Variant: the multiplier is left out.
GwPtsNoMultiplier(el, p) == (IF el = <<>> THEN 0 ELSE el[1].event_points)
\* (el.event_points || 0) * p.multiplier
GwPts(el, p) == (IF el = <<>> THEN 0 ELSE el[1].event_points) * p.multiplier
\* the object stored in picksMap[entryId]
PickSet(d, elems) ==
  [chip  |-> d.active_chip,
   picks |-> [k \in 1..Len(d.picks) |->
               [pos    |-> d.picks[k].position,
                mult   |-> d.picks[k].multiplier,
                gw_pts |-> GwPts(ElemOf(elems, d.picks[k].element), d.picks[k])]]]

\* (hist?.current || []).map(g => ({gw, points, total, ...}))
HistoryOf(hm, entry) ==
  IF entry \in DOMAIN hm /\ hm[entry] # <<>>
  THEN [k \in 1..Len(hm[entry][1].current) |->
         [gw     |-> hm[entry][1].current[k].event,
          points |-> hm[entry][1].current[k].points,
          total  |-> hm[entry][1].current[k].total_points]]
  ELSE <<>>
\* picksMap[m.entry] || null
PicksOf(pm, entry) == IF entry \in DOMAIN pm THEN <<pm[entry]>> ELSE <<>>

\* ------------------------------------------------------- main(): state
\* The run's variables as one record, so that the code between two awaits
\* is a function from the state before to the state after.
State ==
  [pc |-> pc, exitCode |-> exitCode, error |-> error, errorInfo |-> errorInfo,
   gistRes |-> gistRes, top |-> top,
   members |-> members, curEvent |-> curEvent, nextEvent |-> nextEvent,
   elements |-> elements, i |-> i, calls |-> calls, histMap |-> histMap,
   picksMap |-> picksMap, warned |-> warned, output |-> output,
   gistSent |-> gistSent, stored |-> stored, hSched |-> hSched,
   pSched |-> pSched, hResults |-> hResults, pResults |-> pResults,
   faults |-> faults, outOfOrder |-> outOfOrder]

Apply(s) ==
  /\ pc' = s.pc /\ exitCode' = s.exitCode /\ error' = s.error /\ top' = s.top
  /\ errorInfo' = s.errorInfo /\ gistRes' = s.gistRes
  /\ members' = s.members /\ curEvent' = s.curEvent /\ nextEvent' = s.nextEvent
  /\ elements' = s.elements /\ i' = s.i /\ calls' = s.calls
  /\ histMap' = s.histMap /\ picksMap' = s.picksMap /\ warned' = s.warned
  /\ output' = s.output /\ gistSent' = s.gistSent /\ stored' = s.stored
  /\ hSched' = s.hSched /\ pSched' = s.pSched /\ hResults' = s.hResults
  /\ pResults' = s.pResults /\ faults' = s.faults /\ outOfOrder' = s.outOfOrder

\* An error leaves main(): main().catch prints err.message and calls
\* process.exit(1).
Fail(s, msg) == [s EXCEPT !.pc = "exited", !.exitCode = <<1>>, !.error = msg]
\* The same for an error whose message quotes a status and a text.
NoInfo == [status |-> 0, text |-> ""]
FailWith(s, msg, status, text) ==
  [Fail(s, msg) EXCEPT !.errorInfo = [status |-> status, text |-> text]]

\* How a call stands: "value", "undefined" (returned nothing), "rejected",
\* or still "fetch" / "sleep".
Outcome(c) ==
  IF c.st = "fulfilled" THEN (IF c.val = <<>> THEN "undefined" ELSE "value")
  ELSE c.st
\* The record of a batch's calls at the moment main() collects its results.
Recorded(res, cs) ==
  [e \in DOMAIN res \cup DOMAIN cs |-> IF e \in DOMAIN cs THEN Outcome(cs[e]) ELSE res[e]]

BatchEvent(items) == [ev |-> "batch", items |-> items, ms |-> 0]
PauseEvent == [ev |-> "pause", items |-> <<>>, ms |-> PauseMs]

\* ------------------------------------------------------------ publish
\* Variant: members without a history entry are filtered out.
SnapshotOfFetched(s) ==
  LET kept == SelectSeq(s.members, LAMBDA e : e \in DOMAIN s.histMap)
  IN  [current_gw |-> EventId(s.curEvent),
       next_gw    |-> EventId(s.nextEvent),
       members    |-> [k \in 1..Len(kept) |->
                        [entry_id |-> kept[k],
                         history  |-> HistoryOf(s.histMap, kept[k]),
                         picks    |-> PicksOf(s.picksMap, kept[k])]]]
\* The object built at `const output = {...}`
Snapshot(s) ==
  [current_gw |-> EventId(s.curEvent),
   next_gw    |-> EventId(s.nextEvent),
   members    |-> [k \in 1..Len(s.members) |->
                    [entry_id |-> s.members[k],
                     history  |-> HistoryOf(s.histMap, s.members[k]),
                     picks    |-> PicksOf(s.picksMap, s.members[k])]]]

\* Build the output and send the PATCH request; main awaits its response.
Publish(s) ==
  [s EXCEPT !.pc = "publish", !.calls = EmptyMap, !.output = <<Snapshot(s)>>,
            !.gistSent = s.gistSent + 1]

\* -------------------------------------------------------- batch loops
\* Variant: the test reads i + batchSize <= members.length.
MoreBatchesInclusive(s) == s.i + batchSize <= Len(s.members)
\* if (i + batchSize < members.length) await the 500 ms pause
MoreBatches(s) == s.i + batchSize < Len(s.members)

\* -------------------------------------------------------- picks loop
\* One iteration of the picks loop up to its await: the batch is sliced and
\* a fetchFPL call is started for each of its members.
StartPicksBatch(s, idx) ==
  LET batch == Slice(s.members, idx, idx + batchSize)
  IN  [s EXCEPT !.pc = "picks", !.i = idx,
                !.calls = [e \in Range(batch) |->
                            FetchStart(PicksPath(e, s.curEvent[1].id))],
                !.pSched = Append(s.pSched, BatchEvent(batch))]

\* Variant: the guard reads if (curEvent).
PicksPhaseAnyEvent(s) ==
  IF s.curEvent # <<>> THEN StartPicksBatch(s, 0) ELSE Publish(s)

\* if (curEvent?.id) { ...picks loop... } followed by the output
PicksPhase(s) ==
  IF EventId(s.curEvent) # <<>> THEN StartPicksBatch(s, 0) ELSE Publish(s)

\* results.forEach of the picks loop, then the pause or the end of the loop.
\* Reading d.active_chip of an undefined d throws a TypeError out of forEach:
\* the results before it are recorded, those after it are not.
CollectPicks(s) ==
  LET batch == Slice(s.members, s.i, s.i + batchSize)
      done  == {k \in 1..Len(batch) : s.calls[batch[k]].st = "fulfilled"}
      bad   == {k \in done : s.calls[batch[k]].val = <<>>}
      upto  == IF bad = {} THEN Len(batch)
               ELSE (CHOOSE k \in bad : \A j \in bad : k <= j) - 1
      kept  == {batch[k] : k \in {j \in done : j <= upto}}
      pm    == [e \in DOMAIN s.picksMap \cup kept |->
                 IF e \in kept THEN PickSet(s.calls[e].val[1], s.elements)
                 ELSE s.picksMap[e]]
      s1    == [s EXCEPT !.picksMap = pm,
                         !.pResults = Recorded(s.pResults, s.calls)]
  IN  IF bad # {} THEN Fail(s1, "TypeError")
      ELSE IF MoreBatches(s)
      THEN [s1 EXCEPT !.pc = "picksPause", !.calls = EmptyMap,
                      !.pSched = Append(s.pSched, PauseEvent)]
      ELSE Publish(s1)

\* ------------------------------------------------------ history loop
StartHistBatch(s, idx) ==
  LET batch == Slice(s.members, idx, idx + batchSize)
  IN  [s EXCEPT !.pc = "hist", !.i = idx,
                !.calls = [e \in Range(batch) |-> FetchStart(HistoryPath(e))],
                !.hSched = Append(s.hSched, BatchEvent(batch))]

\* Variant: the values are attributed by order of arrival, not by entry (when
\* the calls settled out of list order a value lands under another key).
CollectHistoryByArrival(s) ==
  LET batch == Slice(s.members, s.i, s.i + batchSize)
      n     == Len(batch)
      Src(k) == IF s.outOfOrder THEN batch[n + 1 - k] ELSE batch[k]
      done  == {batch[k] : k \in {j \in 1..n : s.calls[Src(j)].st = "fulfilled"}}
      ValOf(e) == LET k == CHOOSE j \in 1..n : batch[j] = e IN s.calls[Src(k)].val
      IsRejected(e) == e \notin done
      hm    == [e \in DOMAIN s.histMap \cup done |->
                 IF e \in done THEN ValOf(e) ELSE s.histMap[e]]
      s1    == [s EXCEPT !.histMap = hm,
                         !.warned = s.warned \o SelectSeq(batch, IsRejected),
                         !.hResults = Recorded(s.hResults, s.calls)]
  IN  IF MoreBatches(s)
      THEN [s1 EXCEPT !.pc = "histPause", !.calls = EmptyMap,
                      !.hSched = Append(s.hSched, PauseEvent)]
      ELSE PicksPhase([s1 EXCEPT !.calls = EmptyMap])

\* results.forEach of the history loop, then the pause or the end of the loop
\* (after the loop main runs on, without an await, into the picks phase).
CollectHistory(s) ==
  LET batch == Slice(s.members, s.i, s.i + batchSize)
      done  == {e \in Range(batch) : s.calls[e].st = "fulfilled"}
      IsRejected(e) == s.calls[e].st # "fulfilled"
      hm    == [e \in DOMAIN s.histMap \cup done |->
                 IF e \in done THEN s.calls[e].val ELSE s.histMap[e]]
      s1    == [s EXCEPT !.histMap = hm,
                         !.warned = s.warned \o SelectSeq(batch, IsRejected),
                         !.hResults = Recorded(s.hResults, s.calls)]
  IN  IF MoreBatches(s)
      THEN [s1 EXCEPT !.pc = "histPause", !.calls = EmptyMap,
                      !.hSched = Append(s.hSched, PauseEvent)]
      ELSE PicksPhase([s1 EXCEPT !.calls = EmptyMap])

\* A call of the batch has settled before an item that precedes it in the list.
Overtaken(s) ==
  \E j, k \in 1..Len(s.members) :
    /\ j < k /\ s.members[j] \in DOMAIN s.calls /\ s.members[k] \in DOMAIN s.calls
    /\ ~IsSettled(s.calls[s.members[j]]) /\ IsSettled(s.calls[s.members[k]])

\* Variant: main() goes on as soon as one call of the batch has settled.
BatchSettleOnFirst(s) ==
  IF \A e \in DOMAIN s.calls : ~IsSettled(s.calls[e]) THEN s
  ELSE IF s.pc = "hist" THEN CollectHistory(s)
  ELSE CollectPicks(s)

\* The continuation of main() after `await Promise.allSettled(...)`.
BatchSettle(s) ==
  IF ~AllSettled(s.calls) THEN [s EXCEPT !.outOfOrder = s.outOfOrder \/ Overtaken(s)]
  ELSE IF s.pc = "hist" THEN CollectHistory(s)
  ELSE CollectPicks(s)

\* ------------------------------------------------ league and bootstrap
\* Variant: the check leaves the token out.
MainStartNoTokenCheck(s, leagueId, gistId, token) ==
  IF leagueId = "" \/ gistId = ""
  THEN Fail(s, "secrets")
  ELSE [s EXCEPT !.pc = "init",
                 !.top = [k \in {"league", "bootstrap"} |->
                           FetchStart(IF k = "league" THEN LeaguePath
                                      ELSE BootstrapPath)]]
\* main() from its first line to `await Promise.all([...])`
MainStart(s, leagueId, gistId, token) ==
  IF leagueId = "" \/ gistId = "" \/ token = ""
  THEN Fail(s, "secrets")
  ELSE [s EXCEPT !.pc = "init",
                 !.top = [k \in {"league", "bootstrap"} |->
                           FetchStart(IF k = "league" THEN LeaguePath
                                      ELSE BootstrapPath)]]

\* Variant: the test of members.length is left out.
AfterInitNoEmptyCheck(s) ==
  LET league    == s.top["league"].val
      bootstrap == s.top["bootstrap"].val
  IN  IF league = <<>> THEN Fail(s, "TypeError")
      ELSE IF bootstrap = <<>> THEN Fail(s, "TypeError")
      ELSE StartHistBatch(
             [s EXCEPT !.members   = league[1].results,
                       !.curEvent  = CurEvent(bootstrap[1].events),
                       !.nextEvent = NextEvent(bootstrap[1].events),
                       !.elements  = bootstrap[1].elements], 0)
\* Variant: bootstrap is read with optional chaining (bootstrap?.events).
AfterInitLenient(s) ==
  LET league    == s.top["league"].val
      bootstrap == s.top["bootstrap"].val
      events    == IF bootstrap = <<>> THEN <<>> ELSE bootstrap[1].events
  IN  IF league = <<>> THEN Fail(s, "TypeError")
      ELSE IF Len(league[1].results) = 0 THEN Fail(s, "no members")
      ELSE StartHistBatch(
             [s EXCEPT !.members   = league[1].results,
                       !.curEvent  = CurEvent(events),
                       !.nextEvent = NextEvent(events)], 0)
\* main() from the result of Promise.all to the first history batch
AfterInit(s) ==
  LET league    == s.top["league"].val
      bootstrap == s.top["bootstrap"].val
  IN  IF league = <<>> THEN Fail(s, "TypeError")
      ELSE IF Len(league[1].results) = 0 THEN Fail(s, "no members")
      ELSE IF bootstrap = <<>> THEN Fail(s, "TypeError")
      ELSE StartHistBatch(
             [s EXCEPT !.members   = league[1].results,
                       !.curEvent  = CurEvent(bootstrap[1].events),
                       !.nextEvent = NextEvent(bootstrap[1].events),
                       !.elements  = bootstrap[1].elements], 0)

\* Promise.all: rejects with the first rejection, resolves when both calls
\* are fulfilled.
TopSettle(s) ==
  LET rej == {k \in DOMAIN s.top : s.top[k].st = "rejected"}
      e   == (s.top[CHOOSE k \in rej : TRUE]).err
  IN  IF rej # {} THEN FailWith(s, e.kind, e.status, "")
      ELSE IF \A k \in DOMAIN s.top : s.top[k].st = "fulfilled" THEN AfterInit(s)
      ELSE s

\* ---------------------------------------------------- gist response
\* What the PATCH request meets
GistResponses ==
  {OK200, Response(200, FALSE), Response(422, TRUE), Response(401, TRUE),
   Response(422, FALSE), NetFail}
\* What gistRes.text() yields for an answer whose body can be read
TextOf(r) == IF r.status = 401 THEN "Bad credentials" ELSE "Validation Failed"

\* Variant: a refused PATCH is sent a second time.
AfterGistRetry(s, r) ==
  LET s1 == [s EXCEPT !.gistRes = <<r>>,
                      !.stored = IF ResOk(r) THEN s.output ELSE s.stored]
  IN  IF r.status = 0 THEN Fail(s1, "fetch")
      ELSE IF ~ResOk(r) /\ s.gistSent < 2 THEN [s1 EXCEPT !.gistSent = s.gistSent + 1]
      ELSE IF ~ResOk(r) /\ ~r.bodyOk THEN Fail(s1, "text")
      ELSE IF ~ResOk(r) THEN FailWith(s1, "Gist", r.status, TextOf(r))
      ELSE IF ~r.bodyOk THEN Fail(s1, "json")
      ELSE [s1 EXCEPT !.pc = "exited", !.exitCode = <<0>>]

\* Variant: gistRes.ok is not looked at.
AfterGistNoOkCheck(s, r) ==
  LET s1 == [s EXCEPT !.gistRes = <<r>>,
                      !.stored = IF ResOk(r) THEN s.output ELSE s.stored]
  IN  IF r.status = 0 THEN Fail(s1, "fetch")
      ELSE IF ~r.bodyOk THEN Fail(s1, "json")
      ELSE [s1 EXCEPT !.pc = "exited", !.exitCode = <<0>>]

\* main() from the response of the PATCH to its end. The server has replaced
\* the file when it answers 2xx.
AfterGist(s, r) ==
  LET s1 == [s EXCEPT !.gistRes = <<r>>,
                      !.stored = IF ResOk(r) THEN s.output ELSE s.stored]
  IN  IF r.status = 0 THEN Fail(s1, "fetch")
      ELSE IF ~ResOk(r) /\ ~r.bodyOk THEN Fail(s1, "text")
      ELSE IF ~ResOk(r) THEN FailWith(s1, "Gist", r.status, TextOf(r))
      ELSE IF ~r.bodyOk THEN Fail(s1, "json")
      ELSE [s1 EXCEPT !.pc = "exited", !.exitCode = <<0>>]

\* ------------------------------------------------------------- Init
RunInit ==
  /\ pc = "start" /\ exitCode = <<>> /\ error = ""
  /\ errorInfo = NoInfo /\ gistRes = <<>>
  /\ members = <<>> /\ curEvent = <<>> /\ nextEvent = <<>> /\ elements = <<>>
  /\ i = 0 /\ calls = EmptyMap /\ histMap = EmptyMap /\ picksMap = EmptyMap
  /\ warned = <<>> /\ output = <<>> /\ gistSent = 0 /\ stored = <<>>
  /\ hSched = <<>> /\ pSched = <<>> /\ hResults = EmptyMap /\ pResults = EmptyMap
  /\ faults = 0 /\ outOfOrder = FALSE

Init ==
  /\ LEAGUE_ID \in {"", "314"}
  /\ GIST_ID \in {"", "abc"}
  /\ TOKEN \in {"", "ghp"}
  /\ RunInit
  /\ top = EmptyMap
  /\ log = <<>> /\ slept = 0 /\ nfetch = 0

\* ---------------------------------------------------- actions of a run
\* node starts the script: main() runs to its first await or to its throw.
Start ==
  /\ pc = "start"
  /\ Apply(MainStart(State, LEAGUE_ID, GIST_ID, TOKEN))
  /\ UNCHANGED <<envVars, unitVars>>

\* The server may answer r: faulty answers are drawn from a bounded supply.
MayAnswer(r) == IsFault(r) => faults < MaxFaults
Charge(s, r) == [s EXCEPT !.faults = s.faults + (IF IsFault(r) THEN 1 ELSE 0)]

\* An attempt of the league or of the bootstrap call gets its answer.
TopRespond(k, r) ==
  /\ pc = "init"
  /\ top[k].st = "fetch"
  /\ MayAnswer(r)
  /\ \E body \in (IF k = "league" THEN Leagues ELSE Bootstraps) :
       Apply(TopSettle(Charge([State EXCEPT !.top[k] = OnResponse(top[k], r, body)], r)))
  /\ UNCHANGED <<envVars, unitVars>>

\* A retry timer of the league or of the bootstrap call fires.
TopTimer(k) ==
  /\ pc = "init"
  /\ top[k].st = "sleep"
  /\ Apply(TopSettle([State EXCEPT !.top[k] = OnTimer(top[k])]))
  /\ UNCHANGED <<envVars, unitVars>>

\* An attempt of a per-member call of the running batch gets its answer.
ItemRespond(e, r) ==
  /\ pc \in {"hist", "picks"}
  /\ calls[e].st = "fetch"
  /\ MayAnswer(r)
  /\ LET body == IF pc = "hist" THEN HistoryBody(e)
                 ELSE PicksBody(e, calls[e].path.gw)
     IN  Apply(BatchSettle(Charge([State EXCEPT !.calls[e] = OnResponse(calls[e], r, body)], r)))
  /\ UNCHANGED <<envVars, unitVars>>

\* A retry timer of a per-member call fires.
ItemTimer(e) ==
  /\ pc \in {"hist", "picks"}
  /\ calls[e].st = "sleep"
  /\ Apply(BatchSettle([State EXCEPT !.calls[e] = OnTimer(calls[e])]))
  /\ UNCHANGED <<envVars, unitVars>>

\* The 500 ms timer between two batches fires: the next batch starts.
PauseDone ==
  /\ pc \in {"histPause", "picksPause"}
  /\ Apply(IF pc = "histPause" THEN StartHistBatch(State, i + batchSize)
           ELSE StartPicksBatch(State, i + batchSize))
  /\ UNCHANGED <<envVars, unitVars>>

\* The PATCH request gets its answer.
GistRespond(r) ==
  /\ pc = "publish"
  /\ Apply(AfterGist(State, r))
  /\ UNCHANGED <<envVars, unitVars>>

Next ==
  \/ Start
  \/ \E k \in DOMAIN top, r \in RunResponses : TopRespond(k, r)
  \/ \E k \in DOMAIN top : TopTimer(k)
  \/ \E e \in DOMAIN calls, r \in RunResponses : ItemRespond(e, r)
  \/ \E e \in DOMAIN calls : ItemTimer(e)
  \/ PauseDone
  \/ \E r \in GistResponses : GistRespond(r)

Spec == Init /\ [][Next]_vars

\* ------------------------------------------- one isolated fetchFPL call
UnitPaths == {LeaguePath, HistoryPath(Entry(1)), PicksPath(Entry(2), 2)}
\* What res.json() yields for a path
BodyOf(path) ==
  IF path.endpoint = "history" THEN HistoryBody(path.entry)
  ELSE IF path.endpoint = "picks" THEN PicksBody(path.entry, path.gw)
  ELSE [results |-> <<Entry(1)>>]

InitFetch ==
  /\ LEAGUE_ID = "314" /\ GIST_ID = "abc" /\ TOKEN = "ghp"
  /\ RunInit
  /\ \E p \in UnitPaths : top = [k \in {"call"} |-> FetchStart(p)]
  /\ log = <<>> /\ slept = 0 /\ nfetch = 1

\* The pending attempt of the call gets its answer.
UnitRespond(r) ==
  /\ top["call"].st = "fetch"
  /\ top' = [top EXCEPT !["call"] = OnResponse(top["call"], r, BodyOf(top["call"].path))]
  /\ log' = Append(log, r)
  /\ UNCHANGED <<slept, nfetch>>
  /\ UNCHANGED <<envVars, pc, exitCode, error, errorInfo, gistRes, members, curEvent, nextEvent,
                 elements, i, calls, histMap, picksMap, warned, output,
                 gistSent, stored, hSched, pSched, hResults, pResults, faults,
                 outOfOrder>>

\* The pending timer of the call fires.
UnitTimer ==
  /\ top["call"].st = "sleep"
  /\ top' = [top EXCEPT !["call"] = OnTimer(top["call"])]
  /\ slept' = slept + top["call"].delay
  /\ nfetch' = nfetch + (IF top'["call"].st = "fetch" THEN 1 ELSE 0)
  /\ UNCHANGED log
  /\ UNCHANGED <<envVars, pc, exitCode, error, errorInfo, gistRes, members, curEvent, nextEvent,
                 elements, i, calls, histMap, picksMap, warned, output,
                 gistSent, stored, hSched, pSched, hResults, pResults, faults,
                 outOfOrder>>

NextFetch ==
  \/ \E r \in UnitResponses : UnitRespond(r)
  \/ UnitTimer

SpecFetch == InitFetch /\ [][NextFetch]_vars

\* ------------------------------------ period selection on its own
\* The static data's events, in order (id = position), with any flags.
EventLists ==
  UNION { [1..n -> BOOLEAN \X BOOLEAN \X BOOLEAN] : n \in 0..MaxEvents }
EventsOf(f) == [k \in DOMAIN f |-> Event(k, f[k][1], f[k][2], f[k][3])]

\* The league call has delivered a one-member league, the bootstrap call is
\* awaiting the answer to its first attempt.
InitEvents ==
  /\ LEAGUE_ID = "314" /\ GIST_ID = "abc" /\ TOKEN = "ghp"
  /\ pc = "init" /\ exitCode = <<>> /\ error = "" /\ errorInfo = NoInfo
  /\ gistRes = <<>>
  /\ top = [k \in {"league", "bootstrap"} |->
             IF k = "league"
             THEN [FetchStart(LeaguePath) EXCEPT
                     !.st = "fulfilled", !.val = <<[results |-> <<Entry(1)>>]>>]
             ELSE FetchStart(BootstrapPath)]
  /\ members = <<>> /\ curEvent = <<>> /\ nextEvent = <<>> /\ elements = <<>>
  /\ i = 0 /\ calls = EmptyMap /\ histMap = EmptyMap /\ picksMap = EmptyMap
  /\ warned = <<>> /\ output = <<>> /\ gistSent = 0 /\ stored = <<>>
  /\ hSched = <<>> /\ pSched = <<>> /\ hResults = EmptyMap /\ pResults = EmptyMap
  /\ faults = 0 /\ outOfOrder = FALSE
  /\ log = <<>> /\ slept = 0 /\ nfetch = 0

\* The bootstrap call delivers its body and main() selects the periods.
BootstrapArrives(f) ==
  /\ pc = "init"
  /\ top["bootstrap"].st = "fetch"
  /\ LET body == [events |-> EventsOf(f), elements |-> <<Element(1, 6)>>]
     IN  Apply(TopSettle([State EXCEPT
                 !.top["bootstrap"] = OnResponse(top["bootstrap"], OK200, body)]))
  /\ UNCHANGED <<envVars, unitVars>>

NextEvents == \E f \in EventLists : BootstrapArrives(f)

SpecEvents == InitEvents /\ [][NextEvents]_vars

\* =================================================== properties: fetchFPL
TheCall == top["call"]
Last(s) == s[Len(s)]
\* a status that is neither 2xx nor 429 (and an answer did arrive)
IsHttpFailure(r) == r.status # 0 /\ r.status # 429 /\ ~ResOk(r)

\* C1: a call whose three attempts were all answered 429 ends by throwing,
\* it does not complete with a result.
C1_RateLimitedCallFails ==
  ( /\ Len(log) = retries
    /\ \A k \in 1..Len(log) : log[k].status = 429
    /\ IsSettled(TheCall) )
  => TheCall.st = "rejected"

C8_NoRequestAfter2xx ==
  /\ nfetch <= retries
  /\ \A k \in 1..Len(log) : ResOk(log[k]) => nfetch = k

\* C8 amended: at most 3 requests per call whatever the answers are, and no
\* request after an attempt whose 2xx answer was read and parsed: that
\* attempt is the last one and the call has returned its body.
C8_RequestBudget ==
  /\ nfetch <= retries
  /\ \A k \in 1..Len(log) :
       log[k] = OK200 => /\ k = Len(log) /\ nfetch = k
                         /\ TheCall.st = "fulfilled" /\ TheCall.val # <<>>

C8_Witness ==
  /\ Len(log) = retries /\ nfetch = retries
  /\ log[1].status = 429 /\ log[2].status = 0 /\ log[3] = OK200
  /\ TheCall.st = "fulfilled"

\* C14: a 429 on the k-th attempt is followed by a sleep of 3*k seconds (18
\* seconds in all when the three attempts are answered 429); a network
\* failure on an attempt that is not the last is followed by a sleep of 2
\* seconds and then by the next request of the same call.
Pending == IF TheCall.st = "sleep" THEN TheCall.delay ELSE 0
RECURSIVE SleepDue(_)
SleepDue(n) ==
  IF n = 0 THEN 0
  ELSE SleepDue(n - 1) +
       (IF log[n].status = 429 THEN 3000 * n
        ELSE IF log[n] # OK200 /\ n < 3 THEN 2000
        ELSE 0)
C14_RetryDelays ==
  /\ slept + Pending = SleepDue(Len(log))
  /\ \A k \in 1..Len(log) :
       /\ (log[k].status = 429 /\ k = Len(log) /\ TheCall.st = "sleep")
            => TheCall.delay = 3000 * k
       /\ (log[k].status = 0 /\ k < 3 /\ k = Len(log))
            => \/ TheCall.st = "sleep" /\ TheCall.delay = 2000
               \/ TheCall.st = "fetch" /\ TheCall.i = k /\ nfetch = k + 1
       /\ (log[k].status = 0 /\ k < 3 /\ k < Len(log)) => nfetch > k
  /\ ( /\ Len(log) = 3 /\ \A k \in 1..3 : log[k].status = 429
       /\ IsSettled(TheCall) ) => slept = 18000
  /\ TheCall.path \in UnitPaths

C14_Witness ==
  /\ Len(log) = 3 /\ \A k \in 1..3 : log[k].status = 429
  /\ IsSettled(TheCall) /\ slept = 18000

C14_WitnessNetwork ==
  /\ Len(log) = 3 /\ log[1].status = 0 /\ log[2].status = 429 /\ log[3] = OK200
  /\ slept = 8000 /\ nfetch = 3 /\ TheCall.st = "fulfilled"

\* ====================================================== properties: run
\* The standings as the server delivered them
Standings == top["league"].val[1].results
\* What the snapshot holds for a member whose fetches succeeded
FetchedHistory(e) == <<[gw |-> 1, points |-> e, total |-> e + 100]>>
FetchedPicks(e) ==
  [chip  |-> <<>>,
   picks |-> << [pos |-> 1, mult |-> e % 3, gw_pts |-> 6 * (e % 3)],
                [pos |-> 2, mult |-> 1, gw_pts |-> 0] >>]
Count(seq, e) == Cardinality({k \in 1..Len(seq) : seq[k] = e})
Batches(sched) == SelectSeq(sched, LAMBDA x : x.ev = "batch")
Pauses(sched) == SelectSeq(sched, LAMBDA x : x.ev = "pause")
RECURSIVE Concat(_)
Concat(sched) ==
  IF sched = <<>> THEN <<>> ELSE Head(sched).items \o Concat(Tail(sched))
CeilDiv(n, d) == (n + d - 1) \div d
\* The history loop has ended / the picks loop ran and has ended
HistoryLoopDone == pSched # <<>> \/ gistSent > 0
PicksLoopDone == pSched # <<>> /\ gistSent > 0

\* C2: once the per-member phases have begun, a fetch that ends without
\* success for a member never ends the run: the process does not end before
\* the PATCH request has been sent.
C2_MemberFailureNotFatal ==
  (pc = "exited" /\ hSched # <<>>) => gistSent > 0

\* C3: a published snapshot has one entry per standings member, in standings
\* order; history is [] where the history fetch did not succeed and picks is
\* null where the picks fetch did not succeed; fetched data is kept.
C3_SnapshotCoversAllMembers ==
  output # <<>> =>
    /\ Len(output[1].members) = Len(Standings)
    /\ \A k \in 1..Len(Standings) :
         LET e == Standings[k]
             m == output[1].members[k]
         IN  /\ m.entry_id = e
             /\ m.history = (IF e \in DOMAIN hResults /\ hResults[e] = "value"
                             THEN FetchedHistory(e) ELSE <<>>)
             /\ m.picks = (IF e \in DOMAIN pResults /\ pResults[e] = "value"
                           THEN <<FetchedPicks(e)>> ELSE <<>>)

C3_Witness ==
  /\ exitCode = <<0>> /\ stored = output
  /\ Len(output[1].members) = 5
  /\ hResults[Entry(2)] = "rejected"
  /\ output[1].members[2].history = <<>>
  /\ \A k \in {1, 3, 4, 5} : output[1].members[k].history # <<>>
  /\ \A k \in 1..5 : output[1].members[k].picks # <<>>

\* C4: for every item whose fetch failed, in either phase, the result map has
\* no key for it and a warning naming it was emitted; every item that
\* succeeded is recorded under its own identifier.
C4_FailuresOmittedAndWarned ==
  /\ \A e \in DOMAIN hResults :
       IF hResults[e] = "value"
       THEN e \in DOMAIN histMap /\ histMap[e] = <<HistoryBody(e)>>
       ELSE e \notin DOMAIN histMap /\ Count(warned, e) >= 1
  /\ \A e \in DOMAIN pResults :
       IF pResults[e] = "value"
       THEN e \in DOMAIN picksMap /\ picksMap[e] = FetchedPicks(e)
       ELSE /\ e \notin DOMAIN picksMap
            /\ Count(warned, e) >= 1 + (IF hResults[e] = "value" THEN 0 ELSE 1)

\* C5: the batch boundary is a join point. A call that is not settled belongs
\* to the batch started last, and every item of a batch whose results were
\* collected had settled (with a value, with nothing, or rejected): no batch
\* starts before the one before it has settled, and no item is dropped
\* because a sibling failed.
JoinPoint(sched, res, running) ==
  LET bs == Batches(sched)
  IN  /\ running => DOMAIN calls \subseteq Range(bs[Len(bs)].items)
      /\ \A k \in 1..Len(bs) :
           (k < Len(bs) \/ ~running) =>
             \A e \in Range(bs[k].items) :
               e \in DOMAIN res /\ res[e] \in {"value", "undefined", "rejected"}
C5_BatchBoundaryIsJoinPoint ==
  /\ JoinPoint(hSched, hResults, pc = "hist")
  /\ JoinPoint(pSched, pResults, pc = "picks")
  /\ (\E e \in DOMAIN calls : ~IsSettled(calls[e])) => pc \in {"hist", "picks"}

C5_Witness ==
  /\ pc = "hist" /\ Len(Batches(hSched)) = 2
  /\ \E e \in DOMAIN hResults : hResults[e] = "rejected"
  /\ \E e \in DOMAIN hResults : hResults[e] = "value"
  /\ \E e \in DOMAIN calls : ~IsSettled(calls[e])

\* C6: each per-member phase splits the N members into ceil(N/4) consecutive
\* groups of at most 4, every member in exactly one group, and takes a pause
\* of 500 ms after each group but the last: ceil(N/4) - 1 pauses, each
\* between two groups, none after the last group.
Partition(sched, done) ==
  LET bs == Batches(sched)
      n  == Len(Standings)
  IN  /\ \A k \in 1..Len(bs) : Len(bs[k].items) \in 1..batchSize
      /\ Concat(bs) = SubSeq(Standings, 1, Len(Concat(bs)))
      /\ \A k \in 1..Len(sched) :
           sched[k].ev = (IF k % 2 = 1 THEN "batch" ELSE "pause")
      /\ \A k \in 1..Len(sched) :
           sched[k].ev = "pause" =>
             sched[k].ms = 500 /\ Len(Concat(SubSeq(sched, 1, k))) < n
      /\ done => /\ Concat(bs) = Standings
                 /\ Len(bs) = CeilDiv(n, batchSize)
                 /\ Len(Pauses(sched)) = CeilDiv(n, batchSize) - 1
                 /\ sched[Len(sched)].ev = "batch"
C6_GroupsAndPauses ==
  /\ hSched # <<>> => Partition(hSched, HistoryLoopDone)
  /\ pSched # <<>> => Partition(pSched, PicksLoopDone)

C6_Witness ==
  /\ PicksLoopDone /\ Len(Standings) = 5
  /\ Len(Batches(hSched)) = 2 /\ Len(Pauses(hSched)) = 1
  /\ Len(Batches(pSched)) = 2 /\ Len(Pauses(pSched)) = 1

\* C9: with a required configuration input absent the run ends with a
\* non-zero exit before any request is issued, upstream or publish.
ConfigMissing == LEAGUE_ID = "" \/ GIST_ID = "" \/ TOKEN = ""
C9_MissingConfigFailsFast ==
  ConfigMissing =>
    /\ top = EmptyMap /\ hSched = <<>> /\ pSched = <<>> /\ gistSent = 0
    /\ exitCode # <<0>>
    /\ pc # "start" => exitCode = <<1>>

C9_Witness ==
  /\ LEAGUE_ID # "" /\ GIST_ID # "" /\ TOKEN = ""
  /\ pc = "exited" /\ exitCode = <<1>> /\ error = "secrets"

\* C10: if the standings fetch or the static-data fetch ends without success
\* (rejected, or the retry budget used up by 429 answers) the run is fatal:
\* no per-member request, no PATCH request, exit code 1.
EndedBadly(c) == Outcome(c) \in {"rejected", "undefined"}
C10_RequiredFetchFailureIsFatal ==
  (\E k \in DOMAIN top : EndedBadly(top[k])) =>
    /\ hSched = <<>> /\ pSched = <<>> /\ gistSent = 0
    /\ exitCode # <<0>>
    /\ ( \/ \E k \in DOMAIN top : top[k].st = "rejected"
         \/ \A k \in DOMAIN top : IsSettled(top[k]) ) => exitCode = <<1>>

C10_Witness ==
  /\ exitCode = <<1>> /\ error = "TypeError"
  /\ Outcome(top["bootstrap"]) = "undefined"
  /\ Outcome(top["league"]) = "value" /\ Len(Standings) > 0

\* ================================================== properties: publish
\* The PATCH request was answered with a status that is not 2xx
PatchRefused == gistRes # <<>> /\ gistRes[1].status # 0 /\ ~ResOk(gistRes[1])

\* C11 as stated: at most one PATCH request per run, and a non-2xx answer
\* ends the run with exit code 1 and an error carrying the answer's status
\* and body text.
C11_RefusedPatchCarriesStatusAndText ==
  /\ gistSent <= 1
  /\ PatchRefused =>
       /\ exitCode = <<1>> /\ error = "Gist"
       /\ errorInfo.status = gistRes[1].status
       /\ errorInfo.text = (IF gistRes[1].status = 401 THEN "Bad credentials"
                            ELSE "Validation Failed")

\* C11 amended: at most one PATCH request per run, never a second one; a
\* non-2xx answer ends the run with exit code 1, and the error carries the
\* answer's status and body text whenever that body could be read.
C11_SinglePatchRefusalFatal ==
  /\ gistSent <= 1
  /\ PatchRefused =>
       /\ exitCode = <<1>> /\ pc = "exited"
       /\ gistRes[1].bodyOk =>
            /\ error = "Gist"
            /\ errorInfo.status = gistRes[1].status
            /\ errorInfo.text = (IF gistRes[1].status = 401 THEN "Bad credentials"
                                 ELSE "Validation Failed")

C11_Witness ==
  /\ gistSent = 1 /\ gistRes = <<Response(401, TRUE)>>
  /\ exitCode = <<1>> /\ error = "Gist"
  /\ errorInfo = [status |-> 401, text |-> "Bad credentials"]
  /\ stored = <<>>

\* The run did everything: both required fetches delivered a body, the
\* league has members, and the PATCH was answered 2xx.
RequiredFetched ==
  /\ DOMAIN top = {"league", "bootstrap"}
  /\ \A k \in DOMAIN top : top[k].st = "fulfilled" /\ top[k].val # <<>>
  /\ Len(top["league"].val[1].results) > 0
PatchAccepted == gistRes # <<>> /\ ResOk(gistRes[1])

\* C12 as stated: the process ends with code 0 exactly when the required
\* fetches succeeded, the league is not empty and the PATCH was answered 2xx;
\* every other run ends with code 1.
C12_ExitZeroIffPatchAccepted ==
  pc = "exited" =>
    /\ exitCode \in {<<0>>, <<1>>}
    /\ exitCode = <<0>> <=> (RequiredFetched /\ PatchAccepted)

\* C12 amended: the process ends with code 0 exactly when the required
\* fetches succeeded, the league is not empty and the PATCH was answered 2xx
\* with a body that could be read as JSON; every other run ends with code 1 and
\* an error message. Failed history fetches do not change the exit code.
C12_ExitZeroIffFullSuccess ==
  pc = "exited" =>
    /\ exitCode \in {<<0>>, <<1>>}
    /\ exitCode = <<0>> <=> (RequiredFetched /\ PatchAccepted /\ gistRes[1].bodyOk)
    /\ exitCode = <<1>> <=> error # ""

C12_Witness ==
  /\ pc = "exited" /\ exitCode = <<0>> /\ error = ""
  /\ \E e \in DOMAIN hResults : hResults[e] = "rejected"
  /\ stored = output /\ output # <<>>

\* ======================================== properties: completion order
\* C13: the maps and the snapshot are determined by the outcome of each
\* item's call alone, whichever item of a batch settles first: every value is
\* recorded under the entry it was fetched for, output.members follows the
\* standings, and the batches are taken in list order.
NoCrash == \A e \in DOMAIN pResults : pResults[e] # "undefined"
C13_IndependentOfCompletionOrder ==
  /\ DOMAIN histMap = {e \in DOMAIN hResults : hResults[e] \in {"value", "undefined"}}
  /\ \A e \in DOMAIN histMap :
       histMap[e] = (IF hResults[e] = "value" THEN <<HistoryBody(e)>> ELSE <<>>)
  /\ DOMAIN picksMap \subseteq {e \in DOMAIN pResults : pResults[e] = "value"}
  /\ NoCrash => DOMAIN picksMap = {e \in DOMAIN pResults : pResults[e] = "value"}
  /\ \A e \in DOMAIN picksMap : picksMap[e] = FetchedPicks(e)
  /\ hSched # <<>> => Concat(Batches(hSched)) = SubSeq(Standings, 1, Len(Concat(Batches(hSched))))
  /\ pSched # <<>> => Concat(Batches(pSched)) = SubSeq(Standings, 1, Len(Concat(Batches(pSched))))
  /\ output # <<>> =>
       output[1].members =
         [k \in 1..Len(Standings) |->
           [entry_id |-> Standings[k],
            history  |-> IF hResults[Standings[k]] = "value"
                         THEN FetchedHistory(Standings[k]) ELSE <<>>,
            picks    |-> IF Standings[k] \in DOMAIN pResults
                            /\ pResults[Standings[k]] = "value"
                         THEN <<FetchedPicks(Standings[k])>> ELSE <<>>]]

C13_Witness ==
  /\ outOfOrder /\ exitCode = <<0>> /\ stored = output
  /\ Len(Standings) = 5
  /\ hResults[Entry(1)] = "rejected" /\ hResults[Entry(4)] = "value"
  /\ \A e \in DOMAIN pResults : pResults[e] = "value"

\* ======================================== properties: period selection
\* C15: the current period is the one flagged in-progress if there is one,
\* otherwise the last finished one, otherwise the first known one; the next
\* period is the one flagged upcoming, absent if none is, whatever the
\* current period is.
GivenEvents == top["bootstrap"].val[1].events
Flagged(flag) == {k \in 1..Len(GivenEvents) : GivenEvents[k][flag]}
C15_PeriodSelection ==
  (pc # "init") =>
    LET n   == Len(GivenEvents)
        cur == Flagged("is_current")
        fin == Flagged("finished")
        nxt == Flagged("is_next")
    IN  /\ cur # {} => /\ curEvent # <<>> /\ curEvent[1].id \in cur
                       /\ \A k \in cur : curEvent[1].id <= k
        /\ (cur = {} /\ fin # {}) => /\ curEvent # <<>> /\ curEvent[1].id \in fin
                                     /\ \A k \in fin : k <= curEvent[1].id
        /\ (cur = {} /\ fin = {} /\ n > 0) => curEvent = <<GivenEvents[1]>>
        /\ n = 0 => curEvent = <<>>
        /\ curEvent # <<>> => curEvent[1] = GivenEvents[curEvent[1].id]
        /\ nxt # {} => /\ nextEvent # <<>> /\ nextEvent[1].id \in nxt
                       /\ \A k \in nxt : nextEvent[1].id <= k
                       /\ nextEvent[1] = GivenEvents[nextEvent[1].id]
        /\ nxt = {} => nextEvent = <<>>

C15_Witness ==
  /\ pc = "hist"
  /\ Len(GivenEvents) = 3
  /\ Flagged("is_current") = {} /\ Flagged("finished") = {1, 2}
  /\ Flagged("is_next") = {3}
  /\ curEvent = <<GivenEvents[2]>> /\ nextEvent = <<GivenEvents[3]>>

\* ========================================== properties: effective points
\* C16: in every recorded pick set each slot's gw_pts is the event points of
\* the slot's player in the static table times the slot's multiplier, and 0
\* when the player is not in the table; such a slot does not fail the run.
StaticTable == top["bootstrap"].val[1].elements
EventPoints(id) ==
  IF \E k \in 1..Len(StaticTable) : StaticTable[k].id = id
  THEN (StaticTable[CHOOSE k \in 1..Len(StaticTable) : StaticTable[k].id = id]).event_points
  ELSE 0
C16_EffectivePoints ==
  /\ \A e \in DOMAIN picksMap :
       LET raw == PicksBody(e, curEvent[1].id).picks
       IN  /\ Len(picksMap[e].picks) = Len(raw)
           /\ \A k \in 1..Len(raw) :
                /\ picksMap[e].picks[k].mult = raw[k].multiplier
                /\ picksMap[e].picks[k].gw_pts =
                     EventPoints(raw[k].element) * raw[k].multiplier
  /\ (error = "TypeError" /\ pSched # <<>>)
       => \E e \in DOMAIN pResults : pResults[e] = "undefined"
  /\ \A k \in 1..(IF output = <<>> THEN 0 ELSE Len(output[1].members)) :
       LET m == output[1].members[k]
       IN  m.entry_id \in DOMAIN picksMap => m.picks = <<picksMap[m.entry_id]>>

C16_Witness ==
  /\ exitCode = <<0>> /\ stored = output
  /\ {17, 18} \subseteq DOMAIN picksMap
  /\ picksMap[17].picks[1].mult = 2 /\ picksMap[17].picks[1].gw_pts = 12
  /\ picksMap[18].picks[1].mult = 0 /\ picksMap[18].picks[1].gw_pts = 0
  /\ EventPoints(9) = 0 /\ ~(\E k \in 1..Len(StaticTable) : StaticTable[k].id = 9)
  /\ picksMap[17].picks[2].mult = 1 /\ picksMap[17].picks[2].gw_pts = 0

\* ================================================ properties: phases
\* C17: per-member requests are issued only after both the league and the
\* bootstrap call have delivered their bodies, picks requests only after
\* every history batch has settled, and the PATCH only after every picks
\* batch has settled.
Ended == {"value", "undefined", "rejected"}
AllHistorySettled ==
  /\ Concat(Batches(hSched)) = Standings
  /\ DOMAIN hResults = Range(Standings)
  /\ \A e \in DOMAIN hResults : hResults[e] \in Ended
AllPicksSettled ==
  /\ Concat(Batches(pSched)) = Standings
  /\ DOMAIN pResults = Range(Standings)
  /\ \A e \in DOMAIN pResults : pResults[e] \in Ended
C17_PhasesInOrder ==
  /\ (hSched # <<>> \/ pSched # <<>> \/ calls # EmptyMap)
       => /\ DOMAIN top = {"league", "bootstrap"}
          /\ \A k \in DOMAIN top : Outcome(top[k]) = "value"
  /\ (\E e \in DOMAIN calls : calls[e].path.endpoint = "history")
       => pSched = <<>> /\ gistSent = 0
  /\ (pSched # <<>> \/ \E e \in DOMAIN calls : calls[e].path.endpoint = "picks")
       => AllHistorySettled
  /\ gistSent > 0
       => /\ AllHistorySettled
          /\ pSched # <<>> => AllPicksSettled
          /\ \A e \in DOMAIN calls : IsSettled(calls[e])

C17_Witness ==
  /\ exitCode = <<0>> /\ gistSent = 1 /\ stored = output
  /\ Len(Standings) = 5 /\ Len(Batches(hSched)) = 2 /\ Len(Batches(pSched)) = 2
  /\ hResults[Entry(5)] = "rejected" /\ pResults[Entry(5)] = "value"
  /\ outOfOrder

\* ============================================== properties: concurrency
\* C18: while the process runs, at most 4 upstream requests are in flight at
\* once: at most 2 during the league/bootstrap fetch and at most 4 during a
\* per-member phase, retries included.
InFlight(cs) == Cardinality({e \in DOMAIN cs : cs[e].st = "fetch"})
C18_AtMostFourInFlight ==
  exitCode = <<>> =>
    /\ InFlight(top) + InFlight(calls) <= 4
    /\ InFlight(top) <= 2
    /\ pc = "init" => InFlight(calls) = 0
    /\ pc \in {"hist", "histPause", "picks", "picksPause", "publish"}
         => InFlight(top) = 0
    /\ pc \in {"start", "histPause", "picksPause", "publish"}
         => InFlight(top) + InFlight(calls) = 0
    /\ Cardinality(DOMAIN calls) <= 4

C18_Witness ==
  /\ exitCode = <<>> /\ pc = "picks"
  /\ InFlight(calls) = 4
  /\ \E e \in DOMAIN calls : calls[e].i = 2
  /\ \E e \in DOMAIN calls : calls[e].i = 0

\* ============================================== properties: empty league
\* C19: when the league call delivers a league without members, the run
\* ends with a fatal error; no per-member request and no PATCH is ever
\* issued, so no snapshot without members replaces the stored one.
LeagueEmpty ==
  /\ "league" \in DOMAIN top
  /\ Outcome(top["league"]) = "value"
  /\ Len(Standings) = 0
C19_EmptyLeagueIsFatal ==
  /\ LeagueEmpty =>
       /\ calls = EmptyMap /\ hSched = <<>> /\ pSched = <<>>
       /\ gistSent = 0 /\ output = <<>> /\ stored = <<>>
       /\ exitCode # <<0>>
       /\ AllSettled(top) => pc = "exited" /\ exitCode = <<1>>
       /\ (\A k \in DOMAIN top : top[k].st = "fulfilled") => error = "no members"
  /\ stored # <<>> => Len(stored[1].members) > 0

C19_Witness ==
  /\ LeagueEmpty
  /\ Outcome(top["bootstrap"]) = "value"
  /\ pc = "exited" /\ exitCode = <<1>> /\ error = "no members"
  /\ gistSent = 0 /\ stored = <<>>

\* ========================================= properties: no current period
\* C20: when no current period is selected (no periods at all, or the
\* selected one has no id) no picks request is issued, the snapshot has
\* current_gw null and picks null for every member, and the run goes through
\* the whole history phase and sends the PATCH.
NoCurrentPeriod ==
  /\ hSched # <<>>
  /\ \/ top["bootstrap"].val[1].events = <<>>
     \/ curEvent # <<>> /\ curEvent[1].id = 0
C20_NoCurrentPeriodSkipsPicks ==
  NoCurrentPeriod =>
    /\ pSched = <<>> /\ pResults = EmptyMap /\ picksMap = EmptyMap
    /\ \A e \in DOMAIN calls : calls[e].path.endpoint = "history"
    /\ output # <<>> =>
         /\ output[1].current_gw = <<>>
         /\ Len(output[1].members) = Len(Standings)
         /\ \A k \in 1..Len(output[1].members) :
              /\ output[1].members[k].entry_id = Standings[k]
              /\ output[1].members[k].picks = <<>>
    /\ gistSent > 0 => AllHistorySettled /\ output # <<>>
    /\ pc = "exited" => gistSent = 1
    /\ AllHistorySettled /\ calls = EmptyMap => gistSent = 1

C20_Witness ==
  /\ NoCurrentPeriod /\ curEvent # <<>>
  /\ exitCode = <<0>> /\ stored = output
  /\ Len(Standings) = 5 /\ hResults[Entry(2)] = "rejected"
  /\ output[1].current_gw = <<>> /\ output[1].members[1].picks = <<>>

C20_WitnessNoPeriods ==
  /\ NoCurrentPeriod /\ curEvent = <<>>
  /\ exitCode = <<0>> /\ stored = output
  /\ Len(Standings) = 5 /\ output[1].current_gw = <<>>

====
